---- MODULE Spec2Model ----
(***************************************************************************)
(* Model of the payment processor: the per-client account state machine    *)
(* (ClientAccount::apply_transaction, src/src/structures.rs) and the       *)
(* thread-per-partition driver (compute_account_totals, src/src/main.rs).  *)
(*                                                                         *)
(* Amounts and balances are f64 in the source and f64 here: a value x is   *)
(* the record [hi, lo] with x = (hi * 2^30 + lo) / 2^56, and +=, -= and +  *)
(* are the exact sum rounded to 53 significant bits, ties to even, as IEEE *)
(* 754 defines them.  The encoding holds every f64 that is a multiple of   *)
(* 2^-56 and of magnitude below 16: the amounts of AmountTable and every   *)
(* balance the bounded partitions build from them.  NaN, infinities,       *)
(* subnormals and a negative zero do not occur on these inputs.            *)
(***************************************************************************)
EXTENDS Integers, Sequences, FiniteSets, TLC

\* ---------------------------------------------------------------- bounds
MaxTx == 2          \* transaction ids are 1..MaxTx
MaxAmount == 2      \* the amounts of the rows are the first MaxAmount of AmountTable
MaxRecords == 5     \* records applied to the account of the Ledger spec
MaxDeepRecords == 6 \* records applied to the account of the Deep spec
MaxClients == 2     \* client ids are 1..MaxClients
MaxInput == 3       \* rows of the input file of the Run spec
MaxFairInput == 2   \* rows of the input file of the fair Run spec

\* ------------------------------------------------------- data structures
\* structures.rs: enum TransactionType
TransactionType == {"Deposit", "Withdrawal", "Dispute", "Resolve", "Chargeback"}

\* Option::None, for Transaction.amount and Transaction.state
None == "None"

TxIds == 1 .. MaxTx

\* ------------------------------------------------------------------- f64
\* The f64 value (hi * Limb + lo) / 2^56, with 0 <= lo < Limb; hi carries the
\* sign (floor division, as in two's complement).
Limb == 2^30

F64(hi, lo) == [hi |-> hi, lo |-> lo]

\* 0.0, the Default of f64
Zero == F64(0, 0)

\* Unary minus; exact.
F64Neg(x) ==
    IF x.lo = 0 THEN F64(-x.hi, 0) ELSE F64(-x.hi - 1, Limb - x.lo)

\* The sum of two values as a real number, before rounding.
ExactAdd(x, y) ==
    LET s == x.lo + y.lo IN F64(x.hi + y.hi + (s \div Limb), s % Limb)

\* Round a non-negative real to the nearest value of 53 significant bits,
\* ties to the even significand.  A magnitude of 53 + s bits has 23 + s of
\* them in hi; the s lowest bits, all in lo, are rounded away.
RoundMagnitude(m) ==
    IF m.hi < 2^23 THEN m
    ELSE LET s == CHOOSE k \in 1 .. 7 : 2^(22 + k) <= m.hi /\ m.hi < 2^(23 + k)
             p == 2^s
             r == m.lo % p
             down == F64(m.hi, m.lo - r)
             odd == (m.lo \div p) % 2 = 1
             up == 2 * r > p \/ (2 * r = p /\ odd)
         IN  IF up THEN ExactAdd(down, F64(0, p)) ELSE down

\* Round to nearest, ties to even: the rounding of every f64 operation.
F64Round(x) ==
    IF x.hi < 0 THEN F64Neg(RoundMagnitude(F64Neg(x))) ELSE RoundMagnitude(x)

\* f64 `+` and `+=`
F64Add(x, y) == F64Round(ExactAdd(x, y))

\* f64 `-=`
F64Sub(x, y) == F64Round(ExactAdd(x, F64Neg(y)))

\* f64 `<`
F64Lt(x, y) == x.hi < y.hi \/ (x.hi = y.hi /\ x.lo < y.lo)

\* The amount column as the CSV reader parses it: the f64 nearest to the
\* decimal 0.1 (0x1.999999999999ap-4), 0.7 (0x1.6666666666666p-1), -0.1 (a
\* file may hold a negative amount), 0.2 (0x1.999999999999ap-3) and
\* 0.3 (0x1.3333333333333p-2).
AmountTable ==
    << F64(6710886, 429496730), F64(46976204, 858993456),
       F64Neg(F64(6710886, 429496730)),
       F64(13421772, 858993460), F64(20132659, 214748364) >>

\* The amounts of Deposit and Withdrawal rows.
Amounts == {AmountTable[i] : i \in 1 .. MaxAmount}
Clients == 1 .. MaxClients

\* structures.rs: struct Transaction, as main.rs builds it from a row
\* (state: None).  Deposit and Withdrawal rows carry an amount, the other
\* kinds carry none.
Transaction(kind, client, tx, amount) ==
    [kind |-> kind, client |-> client, amount |-> amount, tx |-> tx, state |-> None]

\* The rows a record source can hand to one client's ledger.
Rows(clients, txs, amounts) ==
    {Transaction(k, c, x, a) : k \in {"Deposit", "Withdrawal"}, c \in clients,
                               x \in txs, a \in amounts}
    \cup
    {Transaction(k, c, x, None) : k \in {"Dispute", "Resolve", "Chargeback"},
                                  c \in clients, x \in txs}

\* #[derive(Default)] ClientAccount: zero balances, unlocked, empty history.
\* history is a function whose DOMAIN is the key set of the HashMap.
DefaultAccount ==
    [available |-> Zero, held |-> Zero, locked |-> FALSE, history |-> << >>]

\* ClientAccount::total
total(a) == F64Add(a.available, a.held)

\* HashMap::insert: adds the key or replaces the value stored under it.
HashMapInsert(m, k, v) ==
    [x \in (DOMAIN m) \cup {k} |-> IF x = k THEN v ELSE m[x]]

\* The value of a Result: the account after the call and Ok or the error.
Outcome(a, r) == [acct |-> a, res |-> r]

\* ------------------------------------------- ClientAccount::apply_transaction
\* Mutant of ApplyDeposit: the locked check is forgotten.
ApplyDepositNoLock(a, t) ==
    Outcome([a EXCEPT !.available = F64Add(@, t.amount),
                      !.history = HashMapInsert(@, t.tx, t)], "Ok")

\* TransactionType::Deposit arm
ApplyDeposit(a, t) ==
    IF a.locked
    THEN Outcome(a, "AccountLocked")
    ELSE Outcome([a EXCEPT !.available = F64Add(@, t.amount),
                           !.history = HashMapInsert(@, t.tx, t)], "Ok")

\* Mutant of ApplyWithdrawal: the locked check is forgotten.
ApplyWithdrawalNoLock(a, t) ==
    IF F64Lt(a.available, t.amount)
    THEN Outcome(a, "InsufficientFunds")
    ELSE Outcome([a EXCEPT !.available = F64Sub(@, t.amount),
                           !.history = HashMapInsert(@, t.tx, t)], "Ok")

\* Mutant of ApplyWithdrawal: `<=` for `<`, a withdrawal of the whole balance fails.
ApplyWithdrawalLe(a, t) ==
    IF a.locked
    THEN Outcome(a, "AccountLocked")
    ELSE IF ~F64Lt(t.amount, a.available)
    THEN Outcome(a, "InsufficientFunds")
    ELSE Outcome([a EXCEPT !.available = F64Sub(@, t.amount),
                           !.history = HashMapInsert(@, t.tx, t)], "Ok")

\* TransactionType::Withdrawal arm
ApplyWithdrawal(a, t) ==
    IF a.locked
    THEN Outcome(a, "AccountLocked")
    ELSE IF F64Lt(a.available, t.amount)
    THEN Outcome(a, "InsufficientFunds")
    ELSE Outcome([a EXCEPT !.available = F64Sub(@, t.amount),
                           !.history = HashMapInsert(@, t.tx, t)], "Ok")

\* Mutant of ApplyDispute: the entry is marked before its kind is checked,
\* so the generic error leaves a changed history behind.
ApplyDisputeMarkFirst(a, t) ==
    IF t.tx \in DOMAIN a.history
    THEN LET stored == a.history[t.tx] IN
         IF stored.state # None
         THEN Outcome(a, "DisputeStateError")
         ELSE IF stored.kind # "Deposit"
         THEN Outcome([a EXCEPT !.history[t.tx].state = "Dispute"], "Error")
         ELSE Outcome([a EXCEPT !.history[t.tx].state = "Dispute",
                                !.available = F64Sub(@, stored.amount),
                                !.held = F64Add(@, stored.amount)], "Ok")
    ELSE Outcome(a, "NoSuchTransactionError")

\* Mutant of ApplyDispute: a successful dispute rebuilds the account and
\* forgets that it was locked.
ApplyDisputeUnlocks(a, t) ==
    IF t.tx \in DOMAIN a.history
    THEN LET stored == a.history[t.tx] IN
         IF stored.state # None
         THEN Outcome(a, "DisputeStateError")
         ELSE IF stored.kind # "Deposit"
         THEN Outcome(a, "Error")
         ELSE Outcome([a EXCEPT !.history[t.tx].state = "Dispute",
                                !.available = F64Sub(@, stored.amount),
                                !.held = F64Add(@, stored.amount),
                                !.locked = FALSE], "Ok")
    ELSE Outcome(a, "NoSuchTransactionError")

\* Mutant of ApplyDispute: the kind of the stored entry is not checked, a
\* stored Withdrawal can be disputed.
ApplyDisputeAnyKind(a, t) ==
    IF t.tx \in DOMAIN a.history
    THEN LET stored == a.history[t.tx] IN
         IF stored.state # None
         THEN Outcome(a, "DisputeStateError")
         ELSE Outcome([a EXCEPT !.history[t.tx].state = "Dispute",
                                !.available = F64Sub(@, stored.amount),
                                !.held = F64Add(@, stored.amount)], "Ok")
    ELSE Outcome(a, "NoSuchTransactionError")

\* TransactionType::Dispute arm; locked accounts may still dispute
ApplyDispute(a, t) ==
    IF t.tx \in DOMAIN a.history
    THEN LET stored == a.history[t.tx] IN
         IF stored.state # None
         THEN Outcome(a, "DisputeStateError")
         ELSE IF stored.kind # "Deposit"
         THEN Outcome(a, "Error")
         ELSE Outcome([a EXCEPT !.history[t.tx].state = "Dispute",
                                !.available = F64Sub(@, stored.amount),
                                !.held = F64Add(@, stored.amount)], "Ok")
    ELSE Outcome(a, "NoSuchTransactionError")

\* Mutant of ApplyResolve: any entry that was ever disputed can be resolved
\* (state.is_some() for the match on Some(Dispute)).
ApplyResolveAnyState(a, t) ==
    IF t.tx \in DOMAIN a.history
    THEN LET stored == a.history[t.tx] IN
         IF stored.state # None
         THEN Outcome([a EXCEPT !.history[t.tx].state = "Resolve",
                                !.available = F64Add(@, stored.amount),
                                !.held = F64Sub(@, stored.amount)], "Ok")
         ELSE Outcome(a, "DisputeStateError")
    ELSE Outcome(a, "NoSuchTransactionError")

\* Mutant of ApplyResolve: a locked account rejects it, as it rejects a
\* Deposit or a Withdrawal.
ApplyResolveLocked(a, t) ==
    IF a.locked
    THEN Outcome(a, "AccountLocked")
    ELSE IF t.tx \in DOMAIN a.history
    THEN LET stored == a.history[t.tx] IN
         IF stored.state = "Dispute"
         THEN Outcome([a EXCEPT !.history[t.tx].state = "Resolve",
                                !.available = F64Add(@, stored.amount),
                                !.held = F64Sub(@, stored.amount)], "Ok")
         ELSE Outcome(a, "DisputeStateError")
    ELSE Outcome(a, "NoSuchTransactionError")

\* TransactionType::Resolve arm
ApplyResolve(a, t) ==
    IF t.tx \in DOMAIN a.history
    THEN LET stored == a.history[t.tx] IN
         IF stored.state = "Dispute"
         THEN Outcome([a EXCEPT !.history[t.tx].state = "Resolve",
                                !.available = F64Add(@, stored.amount),
                                !.held = F64Sub(@, stored.amount)], "Ok")
         ELSE Outcome(a, "DisputeStateError")
    ELSE Outcome(a, "NoSuchTransactionError")

\* TransactionType::Chargeback arm
ApplyChargeback(a, t) ==
    IF t.tx \in DOMAIN a.history
    THEN LET stored == a.history[t.tx] IN
         IF stored.state = "Dispute"
         THEN Outcome([a EXCEPT !.history[t.tx].state = "Chargeback",
                                !.held = F64Sub(@, stored.amount),
                                !.locked = TRUE], "Ok")
         ELSE Outcome(a, "DisputeStateError")
    ELSE Outcome(a, "NoSuchTransactionError")

\* match &transaction.kind
apply_transaction(a, t) ==
    CASE t.kind = "Deposit"    -> ApplyDeposit(a, t)
      [] t.kind = "Withdrawal" -> ApplyWithdrawal(a, t)
      [] t.kind = "Dispute"    -> ApplyDispute(a, t)
      [] t.kind = "Resolve"    -> ApplyResolve(a, t)
      [] t.kind = "Chargeback" -> ApplyChargeback(a, t)

\* ------------------------------------------------------------------ state
VARIABLES
    \* Ledger specification: one ClientAccount driven record by record
    account,          \* the ClientAccount (available, held, locked, history)
    prev,             \* the account as it was before the last call
    lastTx,           \* the Transaction passed to the last call (kind None: no call yet)
    lastResult,       \* what the last call returned: "Ok" or the error
    applied,          \* number of calls made so far
    disputeWins,      \* per tx id: number of Dispute records that returned Ok
    closed,           \* tx ids whose entry was Resolve or Chargeback before the last call
    roundTrip,        \* the account before a Dispute that the last call or the one before made
    \* Run specification: compute_account_totals
    input,            \* the rows of the file, in file order
    parts,            \* the frames partition_by returned, in the order it returned them
    dpc,              \* position of the driver: "run", "print", "done"
    spawned,          \* number of threads spawned (the for loop over parts)
    joined,           \* number of handles joined
    wpc,              \* position of each worker thread: "unspawned", "apply",
                      \* "insert", "exit", "end", "done"
    wpos,             \* each worker: index of the next of its transaction_objects
    wacct,            \* each worker: its local `account`
    client_accounts,  \* the HashMap behind the Mutex (DOMAIN = keys)
    mutex             \* holders of the Mutex: {} free, {w} worker w, {0} the driver

ledgerVars == <<account, prev, lastTx, lastResult, applied, disputeWins, closed, roundTrip>>
runVars == <<input, parts, dpc, spawned, joined, wpc, wpos, wacct, client_accounts, mutex>>
vars == <<ledgerVars, runVars>>

Workers == 1 .. MaxClients
Driver == 0

\* ------------------------------------------------- Ledger specification
LedgerRows == Rows({1}, TxIds, Amounts)

\* The tx ids whose stored entry is in a final dispute state.
ClosedIn(a) ==
    {x \in DOMAIN a.history : a.history[x].state \in {"Resolve", "Chargeback"}}

\* roundTrip.stage is "none", or "disputed" when the last call was a Dispute
\* that returned Ok (before is the account before that Dispute), or
\* "resolved" when the last call was a Resolve of the same tx id made right
\* after such a Dispute.
NoRoundTrip == [stage |-> "none", tx |-> 0, before |-> DefaultAccount]

LedgerInit ==
    /\ account = DefaultAccount
    /\ prev = DefaultAccount
    /\ lastTx = Transaction(None, 1, 1, None)
    /\ lastResult = None
    /\ applied = 0
    /\ disputeWins = [x \in TxIds |-> 0]
    /\ closed = {}
    /\ roundTrip = NoRoundTrip

RunIdle ==
    /\ input = << >>
    /\ parts = << >>
    /\ dpc = "done"
    /\ spawned = 0
    /\ joined = 0
    /\ wpc = [w \in Workers |-> "unspawned"]
    /\ wpos = [w \in Workers |-> 1]
    /\ wacct = [w \in Workers |-> DefaultAccount]
    /\ client_accounts = << >>
    /\ mutex = {}

\* One iteration of `for transaction in transaction_objects`: the call of
\* account.apply_transaction(transaction), its Result swallowed.
ApplyRecord(t) ==
    /\ LET out == apply_transaction(account, t) IN
       /\ account' = out.acct
       /\ lastResult' = out.res
       /\ disputeWins' =
            IF t.kind = "Dispute" /\ out.res = "Ok"
            THEN [disputeWins EXCEPT ![t.tx] = @ + 1] ELSE disputeWins
       /\ roundTrip' =
            IF t.kind = "Dispute" /\ out.res = "Ok"
            THEN [stage |-> "disputed", tx |-> t.tx, before |-> account]
            ELSE IF t.kind = "Resolve" /\ roundTrip.stage = "disputed"
                    /\ roundTrip.tx = t.tx
            THEN [roundTrip EXCEPT !.stage = "resolved"]
            ELSE NoRoundTrip
    /\ closed' = closed \cup ClosedIn(account)
    /\ prev' = account
    /\ lastTx' = t
    /\ applied' = applied + 1
    /\ UNCHANGED runVars

\* The loop of a worker whose partition has at most MaxRecords rows.
LedgerApply(t) ==
    /\ applied < MaxRecords
    /\ ApplyRecord(t)

\* The loop of a worker whose partition has at most MaxDeepRecords rows.
DeepApply(t) ==
    /\ applied < MaxDeepRecords
    /\ ApplyRecord(t)

\* ---------------------------------------------------- Run specification
\* The rows of the input file: for every client a Deposit and a Dispute on
\* one tx id, with one amount.  They make rows fail, hold funds and make the
\* order of a client's rows matter; the ledger's own cases are those of the
\* specification Spec.
RunRows ==
    {r \in Rows(Clients, {1}, {AmountTable[1]}) : r.kind \in {"Deposit", "Dispute"}}

\* The files of at most n rows.
RECURSIVE Inputs(_)
Inputs(n) ==
    IF n = 0 THEN {<< >>}
    ELSE LET shorter == Inputs(n - 1) IN
         shorter \cup {Append(s, r) : s \in {q \in shorter : Len(q) = n - 1},
                                      r \in RunRows}

\* The client ids of the rows: the keys partition_by groups by.
ClientsOf(rows) == {rows[i].client : i \in 1 .. Len(rows)}

\* The orders in which the frames of the clients cs can come: every
\* sequence that holds each client once.
FrameOrders(cs) ==
    {o \in [1 .. Cardinality(cs) -> cs] :
        \A i, j \in 1 .. Cardinality(cs) : o[i] = o[j] => i = j}

RowsOf(rows, c) == SelectSeq(rows, LAMBDA r : r.client = c)

\* DataFrame::partition_by(["client"], include_key = true): one frame per
\* client, the rows of a frame in file order.  The order of the frames is
\* not fixed: every order is a possible return value.
partition_by(rows) ==
    {[i \in 1 .. Len(o) |-> RowsOf(rows, o[i])] : o \in FrameOrders(ClientsOf(rows))}

\* transaction_objects[0].client
client_id(w) == parts[w][1].client

RunInit ==
    /\ LedgerInit
    /\ input \in Inputs(MaxInput)
    /\ parts \in partition_by(input)
    /\ dpc = "run"
    /\ spawned = 0
    /\ joined = 0
    /\ wpc = [w \in Workers |-> "unspawned"]
    /\ wpos = [w \in Workers |-> 1]
    /\ wacct = [w \in Workers |-> DefaultAccount]
    /\ client_accounts = << >>
    /\ mutex = {}

\* The same start, on the files of at most MaxFairInput rows.
RunFairInit ==
    /\ RunInit
    /\ Len(input) <= MaxFairInput

\* for df in &*parts { ... thread::spawn(...); handles.push(handle) }
DriverSpawn ==
    /\ dpc = "run"
    /\ spawned < Len(parts)
    /\ spawned' = spawned + 1
    /\ wpc' = [wpc EXCEPT ![spawned + 1] = "apply"]
    /\ UNCHANGED <<input, parts, dpc, joined, wpos, wacct, client_accounts, mutex>>
    /\ UNCHANGED ledgerVars

\* Mutant of WorkerApply: `account` is created once, outside the spawn loop,
\* and every worker applies its rows to that one account.
WorkerApplyShared(w) ==
    /\ wpc[w] = "apply"
    /\ wpos[w] <= Len(parts[w])
    /\ wacct' = [wacct EXCEPT ![1] = apply_transaction(@, parts[w][wpos[w]]).acct]
    /\ wpos' = [wpos EXCEPT ![w] = @ + 1]
    /\ UNCHANGED <<input, parts, dpc, spawned, joined, wpc, client_accounts, mutex>>
    /\ UNCHANGED ledgerVars

\* Mutant of WorkerApply: the Result is propagated instead of swallowed, the
\* first failing row ends the loop.
WorkerApplyAbort(w) ==
    /\ wpc[w] = "apply"
    /\ wpos[w] <= Len(parts[w])
    /\ LET out == apply_transaction(wacct[w], parts[w][wpos[w]]) IN
       /\ wacct' = [wacct EXCEPT ![w] = out.acct]
       /\ wpos' = [wpos EXCEPT ![w] =
                      IF out.res = "Ok" THEN @ + 1 ELSE Len(parts[w]) + 1]
    /\ UNCHANGED <<input, parts, dpc, spawned, joined, wpc, client_accounts, mutex>>
    /\ UNCHANGED ledgerVars

\* The worker's loop body: apply the next transaction, swallow the Result.
WorkerApply(w) ==
    /\ wpc[w] = "apply"
    /\ wpos[w] <= Len(parts[w])
    /\ wacct' = [wacct EXCEPT ![w] = apply_transaction(@, parts[w][wpos[w]]).acct]
    /\ wpos' = [wpos EXCEPT ![w] = @ + 1]
    /\ UNCHANGED <<input, parts, dpc, spawned, joined, wpc, client_accounts, mutex>>
    /\ UNCHANGED ledgerVars

\* Mutant of WorkerLock: the worker does not wait for the mutex to be free.
WorkerLockNoWait(w) ==
    /\ wpc[w] = "apply"
    /\ wpos[w] > Len(parts[w])
    /\ mutex' = mutex \cup {w}
    /\ wpc' = [wpc EXCEPT ![w] = "insert"]
    /\ UNCHANGED <<input, parts, dpc, spawned, joined, wpos, wacct, client_accounts>>
    /\ UNCHANGED ledgerVars

\* accounts.lock().unwrap(), once the loop is over; blocks while the mutex is held
WorkerLock(w) ==
    /\ wpc[w] = "apply"
    /\ wpos[w] > Len(parts[w])
    /\ mutex = {}
    /\ mutex' = {w}
    /\ wpc' = [wpc EXCEPT ![w] = "insert"]
    /\ UNCHANGED <<input, parts, dpc, spawned, joined, wpos, wacct, client_accounts>>
    /\ UNCHANGED ledgerVars

\* accounts_lock.insert(client_id, account)
WorkerInsert(w) ==
    /\ wpc[w] = "insert"
    /\ client_accounts' = HashMapInsert(client_accounts, client_id(w), wacct[w])
    /\ wpc' = [wpc EXCEPT ![w] = "exit"]
    /\ UNCHANGED <<input, parts, dpc, spawned, joined, wpos, wacct, mutex>>
    /\ UNCHANGED ledgerVars

\* Mutant of WorkerExit: the MutexGuard is leaked, the closure ends without
\* releasing the mutex.
WorkerExitKeepsLock(w) ==
    /\ wpc[w] = "exit"
    /\ wpc' = [wpc EXCEPT ![w] = "end"]
    /\ UNCHANGED <<input, parts, dpc, spawned, joined, wpos, wacct, client_accounts, mutex>>
    /\ UNCHANGED ledgerVars

\* End of the closure: the MutexGuard accounts_lock is dropped.  The thread
\* has not terminated yet; other threads run before it does.
WorkerExit(w) ==
    /\ wpc[w] = "exit"
    /\ mutex' = mutex \ {w}
    /\ wpc' = [wpc EXCEPT ![w] = "end"]
    /\ UNCHANGED <<input, parts, dpc, spawned, joined, wpos, wacct, client_accounts>>
    /\ UNCHANGED ledgerVars

\* The thread terminates: from now on a join of its handle returns.
WorkerEnd(w) ==
    /\ wpc[w] = "end"
    /\ wpc' = [wpc EXCEPT ![w] = "done"]
    /\ UNCHANGED <<input, parts, dpc, spawned, joined, wpos, wacct, client_accounts, mutex>>
    /\ UNCHANGED ledgerVars

\* for handle in handles { handle.join().unwrap() }: handles are joined in
\* spawn order, each join blocks until that thread has terminated.
DriverJoin ==
    /\ dpc = "run"
    /\ spawned = Len(parts)
    /\ joined < spawned
    /\ wpc[joined + 1] = "done"
    /\ joined' = joined + 1
    /\ UNCHANGED <<input, parts, dpc, spawned, wpc, wpos, wacct, client_accounts, mutex>>
    /\ UNCHANGED ledgerVars

\* Mutant of DriverPrint: the join loop is missing, the driver locks and
\* prints as soon as the threads are spawned.
DriverPrintNoJoin ==
    /\ dpc = "run"
    /\ spawned = Len(parts)
    /\ mutex = {}
    /\ mutex' = {Driver}
    /\ dpc' = "print"
    /\ UNCHANGED <<input, parts, spawned, joined, wpc, wpos, wacct, client_accounts>>
    /\ UNCHANGED ledgerVars

\* client_accounts.lock().unwrap() and the printing of the rows
DriverPrint ==
    /\ dpc = "run"
    /\ spawned = Len(parts)
    /\ joined = spawned
    /\ mutex = {}
    /\ mutex' = {Driver}
    /\ dpc' = "print"
    /\ UNCHANGED <<input, parts, spawned, joined, wpc, wpos, wacct, client_accounts>>
    /\ UNCHANGED ledgerVars

\* Ok(client_accounts.clone()): the guard is dropped on return
DriverReturn ==
    /\ dpc = "print"
    /\ mutex' = mutex \ {Driver}
    /\ dpc' = "done"
    /\ UNCHANGED <<input, parts, spawned, joined, wpc, wpos, wacct, client_accounts>>
    /\ UNCHANGED ledgerVars

RunNext ==
    \/ DriverSpawn
    \/ \E w \in Workers : WorkerApply(w)
    \/ \E w \in Workers : WorkerLock(w)
    \/ \E w \in Workers : WorkerInsert(w)
    \/ \E w \in Workers : WorkerExit(w)
    \/ \E w \in Workers : WorkerEnd(w)
    \/ DriverJoin
    \/ DriverPrint
    \/ DriverReturn

RunSpec == RunInit /\ [][RunNext]_vars

\* The steps of one worker thread, and those of the driver.
Worker(w) ==
    WorkerApply(w) \/ WorkerLock(w) \/ WorkerInsert(w) \/ WorkerExit(w) \/ WorkerEnd(w)
DriverStep == DriverSpawn \/ DriverJoin \/ DriverPrint \/ DriverReturn

\* The run under a scheduler that lets every thread that can run, run.
RunFairSpec ==
    /\ RunFairInit
    /\ [][RunNext]_vars
    /\ WF_vars(DriverStep)
    /\ \A w \in Workers : WF_vars(Worker(w))

\* -------------------------------------------------------- specifications
Init == LedgerInit /\ RunIdle

Next == \E t \in LedgerRows : LedgerApply(t)

Spec == Init /\ [][Next]_vars

\* Longer partitions over rows of two amounts: long enough for a Resolve or
\* a Chargeback of one entry to follow the Chargeback of another.
DeepRows == Rows({1}, TxIds, {AmountTable[1], AmountTable[2]})

DeepNext == \E t \in DeepRows : DeepApply(t)

DeepSpec == Init /\ [][DeepNext]_vars

\* Partitions none of whose Deposit and Withdrawal rows has a negative amount.
NonNegRows == Rows({1}, TxIds, {a \in Amounts \cup {Zero} : ~F64Lt(a, Zero)})

NonNegNext == \E t \in NonNegRows : DeepApply(t)

NonNegSpec == Init /\ [][NonNegNext]_vars

\* ======================================================================
\* Properties of ClientAccount::apply_transaction (specification Spec)
\* ======================================================================
Errors == {"AccountLocked", "InsufficientFunds", "NoSuchTransactionError",
           "DisputeStateError", "Error"}

\* The stored entry the last call looked up, if there was one.
HadEntry == lastTx.tx \in DOMAIN prev.history
Entry == prev.history[lastTx.tx]

\* C1: a call of apply_transaction that returns an error leaves available,
\* held, locked and the whole history map exactly as they were before it.
C1_FailedCallIsNoOp ==
    lastResult \in Errors => account = prev

\* C1 witness: the generic error (Dispute of a stored Withdrawal) was returned
\* on an account that holds funds and a history.
C1_Witness ==
    /\ lastResult = "Error"
    /\ lastTx.kind = "Dispute"
    /\ F64Lt(Zero, prev.available)
    /\ account = prev

\* C2: on a locked account every Deposit and Withdrawal fails with
\* AccountLocked and changes neither available nor held.
C2_LockedRejectsFunds ==
    (prev.locked /\ lastTx.kind \in {"Deposit", "Withdrawal"}) =>
        /\ lastResult = "AccountLocked"
        /\ account.available = prev.available
        /\ account.held = prev.held

\* C2 witness: a Withdrawal the balance would cover, refused because the
\* account had been locked by an earlier Chargeback.
C2_Witness ==
    /\ prev.locked
    /\ lastTx.kind = "Withdrawal"
    /\ ~F64Lt(prev.available, lastTx.amount)
    /\ lastResult = "AccountLocked"

\* C3 (as claimed): for every tx id at most one Dispute record ever succeeds.
C3_AtMostOneDispute ==
    \A x \in TxIds : disputeWins[x] <= 1

\* C4 (as claimed): once the entry of a tx id has been Resolve or Chargeback,
\* no later Dispute, Resolve or Chargeback against that tx id succeeds.
C4_ClosedIsTerminal ==
    (lastTx.kind \in {"Dispute", "Resolve", "Chargeback"} /\ lastTx.tx \in closed)
        => lastResult # "Ok"

\* C5: a lock is permanent: an account that was locked before a call is
\* locked after it, whatever the record and whatever the outcome.
C5_LockIsPermanent ==
    prev.locked => account.locked

\* C5 witness: a record succeeded on an account that was already locked.
C5_Witness ==
    /\ prev.locked
    /\ lastResult = "Ok"
    /\ account.locked

\* C6: a Withdrawal on an unlocked account fails with InsufficientFunds
\* exactly when available < amount, and otherwise succeeds, takes the amount
\* from available, leaves held and locked alone and stores the record under
\* its tx; on a locked account the error is AccountLocked.
C6_Withdrawal ==
    lastTx.kind = "Withdrawal" =>
        IF prev.locked
        THEN lastResult = "AccountLocked"
        ELSE /\ (lastResult = "InsufficientFunds") <=> F64Lt(prev.available, lastTx.amount)
             /\ ~F64Lt(prev.available, lastTx.amount) =>
                    /\ lastResult = "Ok"
                    /\ account.available = F64Sub(prev.available, lastTx.amount)
                    /\ account.held = prev.held
                    /\ account.locked = prev.locked
                    /\ lastTx.tx \in DOMAIN account.history
                    /\ account.history[lastTx.tx] = lastTx

\* C6 witness: a Withdrawal of exactly the available balance succeeded.
C6_Witness ==
    /\ lastTx.kind = "Withdrawal"
    /\ ~prev.locked
    /\ prev.available = lastTx.amount
    /\ F64Lt(Zero, lastTx.amount)
    /\ lastResult = "Ok"
    /\ account.available = Zero

\* C7: a Resolve or Chargeback succeeds only against an entry in state
\* Dispute; against an entry in another state it fails with
\* DisputeStateError, against an absent tx id with NoSuchTransactionError,
\* and a failing one changes neither the balances nor locked.
C7_ResolveChargebackErrors ==
    lastTx.kind \in {"Resolve", "Chargeback"} =>
        /\ lastResult = "Ok" => (HadEntry /\ Entry.state = "Dispute")
        /\ (HadEntry /\ Entry.state # "Dispute") => lastResult = "DisputeStateError"
        /\ ~HadEntry => lastResult = "NoSuchTransactionError"
        /\ lastResult # "Ok" =>
              /\ account.available = prev.available
              /\ account.held = prev.held
              /\ account.locked = prev.locked

\* C7 witness: a Resolve against an entry that was already resolved failed
\* with DisputeStateError.
C7_Witness ==
    /\ lastTx.kind = "Resolve"
    /\ HadEntry
    /\ Entry.state = "Resolve"
    /\ lastResult = "DisputeStateError"

\* C8 (as claimed): a Dispute against an undisputed Deposit entry succeeds
\* whatever the available balance is, moves the stored amount from available
\* to held, marks the entry as disputed and leaves total and locked
\* unchanged.
C8_Dispute ==
    (lastTx.kind = "Dispute" /\ HadEntry /\ Entry.state = None /\ Entry.kind = "Deposit") =>
        /\ lastResult = "Ok"
        /\ account.available = F64Sub(prev.available, Entry.amount)
        /\ account.held = F64Add(prev.held, Entry.amount)
        /\ account.history[lastTx.tx].state = "Dispute"
        /\ total(account) = total(prev)
        /\ account.locked = prev.locked

\* C9 (as claimed): a successful Chargeback takes the stored amount from
\* held, leaves available alone, so that total falls by exactly the amount
\* (total before = total after + amount, as real numbers), marks the entry
\* as charged back and locks the account.
C9_Chargeback ==
    (lastTx.kind = "Chargeback" /\ lastResult = "Ok") =>
        /\ HadEntry
        /\ Entry.state = "Dispute"
        /\ account.held = F64Sub(prev.held, Entry.amount)
        /\ account.available = prev.available
        /\ ExactAdd(total(account), Entry.amount) = total(prev)
        /\ account.history[lastTx.tx].state = "Chargeback"
        /\ account.locked

\* ======================================================================
\* Properties of compute_account_totals (specification RunSpec)
\* ======================================================================
\* The account a client's rows produce when applied in file order to a
\* fresh account.
RECURSIVE Ledger(_)
Ledger(rows) ==
    IF rows = << >> THEN DefaultAccount
    ELSE apply_transaction(Ledger(SubSeq(rows, 1, Len(rows) - 1)),
                           rows[Len(rows)]).acct

\* C10: whatever the schedule of the workers and the order of the
\* insertions, every account in the registry is the one its client's rows
\* produce in file order, and at the end every client of the input has one.
C10_ScheduleIndependent ==
    /\ \A c \in DOMAIN client_accounts :
          client_accounts[c] = Ledger(RowsOf(input, c))
    /\ dpc = "done" => DOMAIN client_accounts = ClientsOf(input)

\* C10 witness: the frame of the client that comes second in the file was
\* returned first; the second worker inserted its account, with a history,
\* while the first worker spawned was still applying its rows.
C10_Witness ==
    /\ spawned = 2
    /\ client_id(2) = input[1].client
    /\ wpc[1] = "apply"
    /\ wpos[1] <= Len(parts[1])
    /\ wpc[2] = "done"
    /\ client_id(2) \in DOMAIN client_accounts
    /\ DOMAIN client_accounts[client_id(2)].history # {}

\* ======================================================================
\* Further properties of apply_transaction
\* ======================================================================
\* C14: on a locked account a Dispute against an undisputed Deposit entry,
\* and a Resolve or a Chargeback against a disputed entry, return Ok and
\* move the stored amount exactly as on an unlocked account.
C14_LockedDisputeLifecycle ==
    (prev.locked /\ HadEntry) =>
        /\ (lastTx.kind = "Dispute" /\ Entry.state = None /\ Entry.kind = "Deposit") =>
              /\ lastResult = "Ok"
              /\ account.available = F64Sub(prev.available, Entry.amount)
              /\ account.held = F64Add(prev.held, Entry.amount)
              /\ account.history[lastTx.tx].state = "Dispute"
        /\ (lastTx.kind = "Resolve" /\ Entry.state = "Dispute") =>
              /\ lastResult = "Ok"
              /\ account.available = F64Add(prev.available, Entry.amount)
              /\ account.held = F64Sub(prev.held, Entry.amount)
              /\ account.history[lastTx.tx].state = "Resolve"
        /\ (lastTx.kind = "Chargeback" /\ Entry.state = "Dispute") =>
              /\ lastResult = "Ok"
              /\ account.available = prev.available
              /\ account.held = F64Sub(prev.held, Entry.amount)
              /\ account.history[lastTx.tx].state = "Chargeback"

\* C14 witness: after the Chargeback of one entry had locked the account,
\* the Resolve of another, disputed, entry succeeded.
C14_Witness ==
    /\ prev.locked
    /\ lastTx.kind = "Resolve"
    /\ HadEntry
    /\ Entry.state = "Dispute"
    /\ lastResult = "Ok"
    /\ account.held = F64Sub(prev.held, Entry.amount)

\* C15 (as claimed): a Resolve of tx made right after a successful Dispute of tx returns
\* Ok, brings available, held and locked back to what they were before the
\* Dispute and leaves the entry resolved.
C15_DisputeResolveRoundTrip ==
    roundTrip.stage = "resolved" =>
        /\ lastResult = "Ok"
        /\ account.available = roundTrip.before.available
        /\ account.held = roundTrip.before.held
        /\ account.locked = roundTrip.before.locked
        /\ account.history[roundTrip.tx].state = "Resolve"

\* C16: a Dispute fails with NoSuchTransactionError when the tx id is absent,
\* with DisputeStateError when the entry has a dispute state, with the
\* generic error when the entry is an undisputed Withdrawal, and succeeds in
\* exactly the remaining case, an undisputed Deposit.
C16_DisputeClassification ==
    lastTx.kind = "Dispute" =>
        /\ ~HadEntry => lastResult = "NoSuchTransactionError"
        /\ (HadEntry /\ Entry.state \in {"Dispute", "Resolve", "Chargeback"})
              => lastResult = "DisputeStateError"
        /\ (HadEntry /\ Entry.state = None /\ Entry.kind = "Withdrawal")
              => lastResult = "Error"
        /\ lastResult = "Ok" <=>
              (HadEntry /\ Entry.state = None /\ Entry.kind = "Deposit")

\* C16 witness: the Dispute of a stored, undisputed Withdrawal returned the
\* generic error.
C16_Witness ==
    /\ lastTx.kind = "Dispute"
    /\ HadEntry
    /\ Entry.kind = "Withdrawal"
    /\ Entry.state = None
    /\ lastResult = "Error"

\* The sum, as a real number, of the stored amounts of the entries of h
\* whose keys are in keys.
RECURSIVE SumAmounts(_, _)
SumAmounts(h, keys) ==
    IF keys = {} THEN Zero
    ELSE LET k == CHOOSE x \in keys : TRUE IN
         ExactAdd(h[k].amount, SumAmounts(h, keys \ {k}))

DisputedIn(a) == {x \in DOMAIN a.history : a.history[x].state = "Dispute"}

\* C18 (as claimed): held is the sum of the stored amounts of the entries in
\* state Dispute, and 0 when there is none.
C18_HeldIsSumOfDisputed ==
    account.held = SumAmounts(account.history, DisputedIn(account))

ChargebackedIn(a) == {x \in DOMAIN a.history : a.history[x].state = "Chargeback"}

\* C19: locked is true exactly when some entry is in state Chargeback, and an
\* entry in state Chargeback is never overwritten or removed by a call.
C19_LockedIffChargebacked ==
    /\ account.locked <=> ChargebackedIn(account) # {}
    /\ \A x \in ChargebackedIn(prev) :
          x \in DOMAIN account.history /\ account.history[x] = prev.history[x]

\* C19 witness: a Deposit that reuses the tx id of a charged-back entry was
\* rejected and the entry is still there.
C19_Witness ==
    /\ lastTx.kind = "Deposit"
    /\ lastTx.tx \in ChargebackedIn(prev)
    /\ lastResult = "AccountLocked"
    /\ lastTx.tx \in ChargebackedIn(account)

\* C20 (as claimed; specification NonNegSpec, whose rows have no negative
\* amount): held is never negative, also when tx ids are reused.
C20_HeldNonNegative ==
    ~F64Lt(account.held, Zero)

\* ======================================================================
\* Further properties of compute_account_totals (specification RunSpec)
\* ======================================================================
\* The workers whose insertion has been made.
Inserted == {w \in Workers : wpc[w] \in {"exit", "end", "done"}}

\* C11: at most one thread holds the mutex; a worker is at its insertion
\* only while it holds the mutex; the key it is about to insert is not in
\* the registry; the registry has one key per insertion made, and one per
\* client of the input once every worker is done.
C11_OneInsertionPerClient ==
    /\ Cardinality(mutex) <= 1
    /\ \A w \in Workers : wpc[w] \in {"insert", "exit"} <=> w \in mutex
    /\ \A w \in Workers :
          wpc[w] = "insert" => client_id(w) \notin DOMAIN client_accounts
    /\ Cardinality(DOMAIN client_accounts) = Cardinality(Inserted)
    /\ \A w \in Inserted : client_id(w) \in DOMAIN client_accounts
    /\ (spawned = Len(parts) /\ \A w \in 1 .. spawned : wpc[w] = "done")
          => DOMAIN client_accounts = ClientsOf(input)

\* C11 witness: the second worker has inserted and still holds the mutex
\* while the first, its rows applied, waits for it.
C11_Witness ==
    /\ spawned = 2
    /\ wpc[2] = "exit"
    /\ mutex = {2}
    /\ client_id(2) \in DOMAIN client_accounts
    /\ wpc[1] = "apply"
    /\ wpos[1] > Len(parts[1])

\* The registry of a finished run: for every client of the input the
\* account its rows produce.
FinalRegistry == [c \in ClientsOf(input) |-> Ledger(RowsOf(input, c))]

\* C12: when the driver reads the registry, and ever after, every thread has
\* been spawned, joined and has terminated, the keys of the registry are the
\* clients of the input and its entries are the final ones.
C12_ReadAfterAllWorkers ==
    dpc \in {"print", "done"} =>
        /\ spawned = Len(parts)
        /\ joined = spawned
        /\ \A w \in 1 .. spawned : wpc[w] = "done"
        /\ DOMAIN client_accounts = ClientsOf(input)
        /\ client_accounts = FinalRegistry

\* C12 witness: the driver holds the mutex and prints a registry of two
\* clients.
C12_Witness ==
    /\ dpc = "print"
    /\ mutex = {Driver}
    /\ Cardinality(DOMAIN client_accounts) = 2

\* C13: a worker has applied exactly the first wpos - 1 rows of its
\* partition, in order, failed rows being no-ops; it reaches the insertion
\* only with the whole partition applied, and the account it inserted is the
\* fold of apply_transaction over the whole partition.
C13_WorkerFoldsPartition ==
    \A w \in 1 .. spawned :
        /\ wpos[w] \in 1 .. Len(parts[w]) + 1
        /\ wacct[w] = Ledger(SubSeq(parts[w], 1, wpos[w] - 1))
        /\ wpc[w] \in {"insert", "exit", "end", "done"} => wpos[w] = Len(parts[w]) + 1
        /\ wpc[w] \in {"exit", "end", "done"} =>
              client_accounts[client_id(w)] = wacct[w]

\* C13 witness: the first row of a partition failed (a Dispute of a tx id
\* the account has not seen), the Deposit after it was applied all the same
\* and the account inserted holds it.
C13_Witness ==
    /\ spawned >= 1
    /\ Len(parts[1]) >= 2
    /\ parts[1][1].kind = "Dispute"
    /\ parts[1][2].kind = "Deposit"
    /\ wpc[1] = "done"
    /\ client_accounts[client_id(1)].available = AmountTable[1]

\* The run is over: every thread has terminated, the mutex is free, the
\* registry has been read and holds every client of the input.
Terminated ==
    /\ dpc = "done"
    /\ spawned = Len(parts)
    /\ joined = spawned
    /\ \A w \in 1 .. spawned : wpc[w] = "done"
    /\ mutex = {}
    /\ DOMAIN client_accounts = ClientsOf(input)

\* C17 (specification RunFairSpec): under weak fairness of every worker and
\* of the driver, no state before the end is a deadlock and the run
\* terminates: every worker has applied its partition, taken the mutex,
\* inserted its account, released the mutex and ended, and the driver has
\* joined them all and read the registry.
C17_Terminates ==
    /\ [](dpc # "done" => ENABLED RunNext)
    /\ <>Terminated

\* C17 witness: the run of two workers is over.
C17_Witness ==
    /\ Terminated
    /\ spawned = 2
    /\ Cardinality(DOMAIN client_accounts) = 2

====
